---------------------------- MODULE Spec2Model ----------------------------
(***************************************************************************)
(* A model of computers/local/macos_computer.py: the MacOSComputer adapter *)
(* that turns logical (1366x768) coordinates into physical ones and passes *)
(* pointer, keyboard and introspection requests on to pyautogui, psutil    *)
(* and osascript.                                                          *)
(*                                                                         *)
(* Strings are sequences of code points, so that lower(), strip(),         *)
(* startswith('.') and sorted() are computed as Python computes them.      *)
(* The scale factors are IEEE-754 binary64 values (53-bit significand,     *)
(* round to nearest even), because the code stores width / 1366 in a float *)
(* and truncates x * factor.                                               *)
(***************************************************************************)
EXTENDS Integers, Sequences, FiniteSets, TLC

VARIABLES
    width,            \* self._width
    height,           \* self._height
    x_scale_factor,   \* self._x_scale_factor, a binary64 value
    y_scale_factor,   \* self._y_scale_factor, a binary64 value
    pc,               \* "idle", or the position inside drag
    op,               \* the public call being (or last) executed, with its arguments
    calls,            \* the pyautogui calls made by that public call, in order
    outcome,          \* how the call ended: "none", "returned", or the error raised
    result,           \* the value the call returned
    held,             \* whether the native mouse button is down
    next_point,       \* drag: index of the next path point of the loop
    pending           \* drag: the error raised inside try, "none" if none

vars == <<width, height, x_scale_factor, y_scale_factor, pc, op, calls,
          outcome, result, held, next_point, pending>>

-----------------------------------------------------------------------------
(* Bounds of the model *)

\* how many entries of ScreenSizes the physical screen is drawn from
NumScreens == 4
\* longest drag path
MaxPath == 3
\* longest keypress list
MaxKeys == 2
\* most processes seen by one enumeration
MaxProcs == 3

\* physical sizes pyautogui.size() may report
ScreenSizes ==
    << <<1470, 956>>, <<1280, 800>>, <<1920, 1080>>, <<1366, 768>>,
       <<2560, 1440>>, <<1024, 768>>, <<3840, 2160>>, <<1512, 982>> >>

Screens == { ScreenSizes[i] : i \in 1..NumScreens }

-----------------------------------------------------------------------------
(* Program constants *)

SCALE_TARGET_WIDTH == 1366
SCALE_TARGET_HEIGHT == 768
\* a Python float stores 52 significand bits: four digits of DigitBits bits
DigitBits == 13
Base == 2^DigitBits

None == "None"

-----------------------------------------------------------------------------
(* binary64 arithmetic.  A value is [e |-> exponent, m |-> <<c1, c2, c3,     *)
(* c4>>], standing for 2^e * 1.c1c2c3c4 where the c's are the four base-8192  *)
(* digits (13 bits each) of the 52 stored significand bits.  Arguments are   *)
(* small: divisions of positive integers below 2^18, products with an       *)
(* integer below 2^12.                                                       *)

RECURSIVE BitLen(_)
BitLen(n) == IF n = 0 THEN 0 ELSE 1 + BitLen(n \div 2)

RECURSIVE ExpUp(_, _, _)
\* the largest e >= 0 with b * 2^e <= a, for a >= b
ExpUp(a, b, e) == IF 2 * b <= a THEN ExpUp(a, 2 * b, e + 1) ELSE e

RECURSIVE ExpDown(_, _, _)
\* the smallest k >= 0 with a * 2^k >= b
ExpDown(a, b, k) == IF a >= b THEN k ELSE ExpDown(2 * a, b, k + 1)

\* ip.fr + u units of the last digit, carries propagated
AddUlp(ip, fr, u) ==
    LET s4 == fr[4] + u
        s3 == fr[3] + s4 \div Base
        s2 == fr[2] + s3 \div Base
        s1 == fr[1] + s2 \div Base
    IN  [ip |-> ip + s1 \div Base,
         fr |-> <<s1 % Base, s2 % Base, s3 % Base, s4 % Base>>]

\* a / b for positive integers, correctly rounded (Python's int / int):
\* long division of n / d in [1, 2) to 52 bits after the point, then
\* round to nearest, ties to even
FloatDiv(a, b) ==
    LET e == IF a >= b THEN ExpUp(a, b, 0) ELSE 0 - ExpDown(a, b, 0)
        n == IF e < 0 THEN a * 2^(0 - e) ELSE a
        d == IF e > 0 THEN b * 2^e ELSE b
        t1 == (n - d) * Base
        t2 == (t1 % d) * Base
        t3 == (t2 % d) * Base
        t4 == (t3 % d) * Base
        c4 == t4 \div d
        rest == 2 * (t4 % d)
        up == rest > d \/ (rest = d /\ c4 % 2 = 1)
        m == <<t1 \div d, t2 \div d, t3 \div d, c4>>
        r == AddUlp(1, m, 1)
    IN  IF ~up THEN [e |-> e, m |-> m]
        ELSE IF r.ip = 2 THEN [e |-> e + 1, m |-> <<0, 0, 0, 0>>]
        ELSE [e |-> e, m |-> r.fr]

\* int(x * f) for an integer x >= 0: the exact product x * 1.c1c2c3c4,
\* rounded to 53 significant bits (nearest, ties to even), scaled by 2^e and
\* truncated
FloatMulTrunc(x, f) ==
    LET p4 == x * f.m[4]
        p3 == x * f.m[3] + p4 \div Base
        p2 == x * f.m[2] + p3 \div Base
        p1 == x * f.m[1] + p2 \div Base
        ip == x + p1 \div Base
        d4 == p4 % Base
        \* the product has BitLen(ip) bits before the point: s bits too many
        s == BitLen(ip) - 1
        low == d4 % 2^s
        half == 2^s \div 2
        up == s >= 1 /\ (low > half \/ (low = half /\ (d4 \div 2^s) % 2 = 1))
        kept == <<p1 % Base, p2 % Base, p3 % Base, d4 - low>>
        r == IF up THEN AddUlp(ip, kept, 2^s) ELSE [ip |-> ip, fr |-> kept]
    IN  IF x = 0 THEN 0
        ELSE IF f.e >= 0 THEN r.ip * 2^f.e + r.fr[1] \div 2^(DigitBits - f.e)
        ELSE r.ip \div 2^(0 - f.e)

-----------------------------------------------------------------------------
(* MacOSComputer._scale_coordinates_from_ai *)

\* the coordinates passed through unscaled (a faulty variant)
scale_coordinates_unscaled(x, y) == <<x, y>>

scale_coordinates_from_ai(x, y) ==
    << FloatMulTrunc(x, x_scale_factor), FloatMulTrunc(y, y_scale_factor) >>

InBounds(x, y) ==
    /\ 0 <= x /\ x <= SCALE_TARGET_WIDTH
    /\ 0 <= y /\ y <= SCALE_TARGET_HEIGHT

\* MacOSComputer.__init__: the geometry captured at construction
Construct(w, h) ==
    /\ width = w
    /\ height = h
    /\ x_scale_factor = FloatDiv(w, SCALE_TARGET_WIDTH)
    /\ y_scale_factor = FloatDiv(h, SCALE_TARGET_HEIGHT)

Geometry == <<width, height, x_scale_factor, y_scale_factor>>

-----------------------------------------------------------------------------
(* Strings: sequences of code points *)

S_cmd == <<99, 109, 100>>                                        \* 'cmd'
S_command == <<99, 111, 109, 109, 97, 110, 100>>                 \* 'command'
S_ctrl == <<99, 116, 114, 108>>                                  \* 'ctrl'
S_alt == <<97, 108, 116>>                                        \* 'alt'
S_option == <<111, 112, 116, 105, 111, 110>>                     \* 'option'
S_shift == <<115, 104, 105, 102, 116>>                           \* 'shift'
S_enter == <<101, 110, 116, 101, 114>>                           \* 'enter'
S_return == <<114, 101, 116, 117, 114, 110>>                     \* 'return'
S_tab == <<116, 97, 98>>                                         \* 'tab'
S_space == <<115, 112, 97, 99, 101>>                             \* 'space'
S_backspace == <<98, 97, 99, 107, 115, 112, 97, 99, 101>>        \* 'backspace'
S_delete == <<100, 101, 108, 101, 116, 101>>                     \* 'delete'
S_esc == <<101, 115, 99>>                                        \* 'esc'
S_escape == <<101, 115, 99, 97, 112, 101>>                       \* 'escape'
S_up == <<117, 112>>                                             \* 'up'
S_down == <<100, 111, 119, 110>>                                 \* 'down'
S_left == <<108, 101, 102, 116>>                                 \* 'left'
S_right == <<114, 105, 103, 104, 116>>                           \* 'right'
S_home == <<104, 111, 109, 101>>                                 \* 'home'
S_end == <<101, 110, 100>>                                       \* 'end'
S_pageup == <<112, 97, 103, 101, 117, 112>>                      \* 'pageup'
S_pagedown == <<112, 97, 103, 101, 100, 111, 119, 110>>          \* 'pagedown'
S_CMD == <<67, 77, 68>>                                          \* 'CMD'
S_Alt == <<65, 108, 116>>                                        \* 'Alt'
S_Return == <<82, 101, 116, 117, 114, 110>>                      \* 'Return'
S_A == <<65>>                                                    \* 'A'
S_a == <<97>>                                                    \* 'a'
S_c == <<99>>                                                    \* 'c'
S_F5 == <<70, 53>>                                               \* 'F5'
S_f5 == <<102, 53>>                                              \* 'f5'
S_empty == << >>                                                  \* ''
S_Dock == <<68, 111, 99, 107>>                                   \* 'Dock'
S_Finder == <<70, 105, 110, 100, 101, 114>>                      \* 'Finder'
S_dot_sh == <<46, 115, 104>>                                     \* '.sh'
S_bash == <<98, 97, 115, 104>>                                   \* 'bash'
S_out_plain == <<70, 105, 110, 100, 101, 114, 10>>               \* 'Finder\n'
S_out_padded == <<32, 9, 71, 111, 111, 103, 108, 101, 32, 67, 104, 114, 111, 109, 101, 32, 10>> \* ' \tGoogle Chrome \n'
S_out_blank == <<32, 10>>                                        \* ' \n'
S_Google_Chrome == <<71, 111, 111, 103, 108, 101, 32, 67, 104, 114, 111, 109, 101>> \* 'Google Chrome'

\* the dictionary key_map of keypress, as (key, value) pairs
key_map ==
    { <<S_cmd, S_command>>, <<S_ctrl, S_ctrl>>, <<S_alt, S_option>>,
      <<S_shift, S_shift>>, <<S_enter, S_enter>>, <<S_return, S_enter>>,
      <<S_tab, S_tab>>, <<S_space, S_space>>, <<S_backspace, S_backspace>>,
      <<S_delete, S_delete>>, <<S_esc, S_escape>>, <<S_escape, S_escape>>,
      <<S_up, S_up>>, <<S_down, S_down>>, <<S_left, S_left>>,
      <<S_right, S_right>>, <<S_home, S_home>>, <<S_end, S_end>>,
      <<S_pageup, S_pageup>>, <<S_pagedown, S_pagedown>> }

\* str.lower() on ASCII
Lower(s) == [k \in 1..Len(s) |-> IF s[k] \in 65..90 THEN s[k] + 32 ELSE s[k]]

\* dict.get(k, default) on key_map
KeyMapGet(k, default) ==
    IF \E p \in key_map : p[1] = k
    THEN (CHOOSE p \in key_map : p[1] = k)[2]
    ELSE default

\* all sequences over S of length at most n
SeqsUpTo(S, n) == UNION { [1..k -> S] : k \in 0..n }

-----------------------------------------------------------------------------
(* pyautogui.  A call either performs its event and returns (ok), or raises *)
(* without performing it: with FAILSAFE = True (line 28) every pyautogui    *)
(* function first checks the pointer and raises when it is in a corner.     *)
(* calls records every call the adapter makes, with how it ended.           *)

NativeCall(fn, args, ok) == [fn |-> fn, args |-> args, ok |-> ok]

\* how a public call ends: what it raised (or "returned"), the native calls
\* it made, the value it returned
Ended(out, cs, res) == [outcome |-> out, calls |-> cs, result |-> res]

Raised(ok) == IF ok THEN "returned" ELSE "NativeError"

-----------------------------------------------------------------------------
(* Pointer actions *)

button_map == {"left", "right", "middle"}

\* click with the button looked up only after the native call (a faulty variant)
click_checks_button_late(x, y, button, ok) ==
    IF ~InBounds(x, y) THEN Ended("ValueError", <<>>, None)
    ELSE LET a == scale_coordinates_from_ai(x, y)
             c == NativeCall("click", <<a[1], a[2], button>>, ok)
         IN  IF ~ok THEN Ended("NativeError", <<c>>, None)
             ELSE IF button \notin button_map THEN Ended("ValueError", <<c>>, None)
             ELSE Ended("returned", <<c>>, None)

click(x, y, button, ok) ==
    IF ~InBounds(x, y) THEN Ended("ValueError", <<>>, None)
    ELSE LET a == scale_coordinates_from_ai(x, y)
         IN  IF button \notin button_map THEN Ended("ValueError", <<>>, None)
             ELSE Ended(Raised(ok),
                        <<NativeCall("click", <<a[1], a[2], button>>, ok)>>, None)

double_click(x, y, ok) ==
    IF ~InBounds(x, y) THEN Ended("ValueError", <<>>, None)
    ELSE LET a == scale_coordinates_from_ai(x, y)
         IN  Ended(Raised(ok), <<NativeCall("doubleClick", a, ok)>>, None)

move(x, y, ok) ==
    IF ~InBounds(x, y) THEN Ended("ValueError", <<>>, None)
    ELSE LET a == scale_coordinates_from_ai(x, y)
         IN  Ended(Raised(ok), <<NativeCall("moveTo", a, ok)>>, None)

mouse_move(x, y, ok) == move(x, y, ok)

\* An argument that may be None, an int or a str
NoneArg == [t |-> "None"]
IntArg(v) == [t |-> "int", n |-> v]
StrArg(v) == [t |-> "str", s |-> v]

\* scroll(x, y, direction, amount); okMove and okScroll are how the moveTo
\* and the scroll call end
scroll(x, y, direction, amount, okMove, okScroll) ==
    LET new == x.t = "str"
        dir == IF new THEN x.s ELSE direction
        amt == IF new THEN (IF y.t = "None" THEN 5 ELSE y.n) ELSE amount
        x1 == IF new THEN NoneArg ELSE x
        y1 == IF new THEN NoneArg ELSE y
        at == x1.t # "None" /\ y1.t # "None"
        a == scale_coordinates_from_ai(x1.n, y1.n)
        moved == IF at THEN <<NativeCall("moveTo", a, okMove)>> ELSE <<>>
        scroll_amount == IF dir \in {"down", "right"} THEN amt ELSE 0 - amt
        scrolled ==
            IF dir \in {"up", "down"}
            THEN <<NativeCall("scroll", <<scroll_amount>>, okScroll)>>
            ELSE IF dir \in {"left", "right"}
            THEN <<NativeCall("hscroll", <<scroll_amount>>, okScroll)>>
            ELSE <<>>
    IN  IF at /\ ~InBounds(x1.n, y1.n) THEN Ended("ValueError", <<>>, None)
        ELSE IF at /\ ~okMove THEN Ended("NativeError", moved, None)
        ELSE IF scrolled # <<>> /\ ~okScroll
        THEN Ended("NativeError", moved \o scrolled, None)
        ELSE Ended("returned", moved \o scrolled, None)

-----------------------------------------------------------------------------
(* Keyboard *)

\* keypress without lower-casing (a faulty variant)
mapped_key_case_sensitive(key) == KeyMapGet(key, key)

\* lines 189: key_map.get(key.lower(), key.lower())
mapped_key(key) == KeyMapGet(Lower(key), Lower(key))

keypress(keys, ok) ==
    IF keys = <<>> THEN Ended("returned", <<>>, None)
    ELSE LET mapped_keys == [k \in 1..Len(keys) |-> mapped_key(keys[k])]
         IN  IF Len(mapped_keys) = 1
             THEN Ended(Raised(ok),
                        <<NativeCall("press", <<mapped_keys[1]>>, ok)>>, None)
             ELSE Ended(Raised(ok),
                        <<NativeCall("hotkey", mapped_keys, ok)>>, None)

-----------------------------------------------------------------------------
(* Drag.  A path point is a dict that may lack a key: [x |-> <<v>> or <<>>,  *)
(* y |-> <<v>> or <<>>].                                                    *)

Point(x, y) == [x |-> <<x>>, y |-> <<y>>]

\* point.get(key, 0)
PointGet(v) == IF v = <<>> THEN 0 ELSE v[1]

\* point['x'], point['y'] raise KeyError on a missing key
HasKeys(point) == point.x # <<>> /\ point.y # <<>>

scale_point(point) == scale_coordinates_from_ai(point.x[1], point.y[1])

\* lines 200-213: validation, the move to the first point, the press.
\* "running" stands for control entering the try block.
drag_start(path, okMove, okDown) ==
    IF Len(path) < 2 THEN Ended("ValueError", <<>>, None)
    ELSE IF \E k \in 1..Len(path) :
                ~InBounds(PointGet(path[k].x), PointGet(path[k].y))
    THEN Ended("ValueError", <<>>, None)
    ELSE IF ~HasKeys(path[1]) THEN Ended("KeyError", <<>>, None)
    ELSE LET m == NativeCall("moveTo", scale_point(path[1]), okMove)
             d == NativeCall("mouseDown", <<>>, okDown)
         IN  IF ~okMove THEN Ended("NativeError", <<m>>, None)
             ELSE IF ~okDown THEN Ended("NativeError", <<m, d>>, None)
             ELSE Ended("running", <<m, d>>, None)

\* the loop over every point of the path, the first included (a faulty variant)
drag_loop_all_points(path) == path

\* line 217: path[1:]
drag_loop_points(path) == SubSeq(path, 2, Len(path))

-----------------------------------------------------------------------------
(* Introspection *)

Whitespace == {9, 10, 11, 12, 13, 32}

\* str.strip()
Strip(s) ==
    LET black == { k \in 1..Len(s) : s[k] \notin Whitespace }
    IN  IF black = {} THEN << >>
        ELSE SubSeq(s, CHOOSE a \in black : \A k \in black : a <= k,
                       CHOOSE b \in black : \A k \in black : b >= k)

\* a < b for str: by code point, a proper prefix first
StrLess(a, b) ==
    \E k \in 1..Len(b) :
        /\ Len(a) >= k - 1
        /\ \A j \in 1..(k - 1) : a[j] = b[j]
        /\ (Len(a) < k \/ a[k] < b[k])

RECURSIVE Sorted(_)
\* sorted(S) for a set of str
Sorted(S) ==
    IF S = {} THEN << >>
    ELSE LET least == CHOOSE a \in S : \A b \in S \ {a} : StrLess(a, b)
         IN  <<least>> \o Sorted(S \ {least})

\* what proc.info['name'] gives for one process: a str, None, or an error
NamedProc(name) == [info |-> "str", name |-> name]
NoNameProc == [info |-> "None"]
GoneProc == [info |-> "NoSuchProcess"]
DeniedProc == [info |-> "AccessDenied"]

\* the names kept, hidden (dot-prefixed) ones included (a faulty variant)
app_names_with_hidden(procs) ==
    LET kept == SelectSeq(procs, LAMBDA p : p.info = "str" /\ p.name # << >>)
    IN  [k \in 1..Len(kept) |-> kept[k].name]

\* lines 231-238: the list apps
app_names(procs) ==
    LET kept == SelectSeq(procs, LAMBDA p :
                    /\ p.info = "str"
                    /\ p.name # << >>
                    /\ p.name[1] # 46)
    IN  [k \in 1..Len(kept) |-> kept[k].name]

get_running_applications(procs) ==
    LET apps == app_names(procs)
    IN  Ended("returned", <<>>, Sorted({ apps[k] : k \in 1..Len(apps) }))

\* how subprocess.run(['osascript', ...], timeout=5) ends
Exited(returncode, stdout) ==
    [end |-> "exit", returncode |-> returncode, stdout |-> stdout]
TimedOut == [end |-> "TimeoutExpired"]
NotRun == [end |-> "OSError"]

\* `except Exception` catching only what osascript itself reports, so that a
\* timeout reaches the caller (a faulty variant)
script_error_uncaught(run) == IF run.end = "TimeoutExpired" THEN "TimeoutExpired" ELSE "none"

\* lines 256, 273: what passes `except Exception` -- nothing subprocess.run raises
script_error(run) == "none"

get_active_window_title(run) ==
    IF run.end = "exit"
    THEN Ended("returned", <<>>,
               IF run.returncode = 0 THEN Strip(run.stdout) ELSE S_empty)
    ELSE IF script_error(run) # "none" THEN Ended(script_error(run), <<>>, None)
    ELSE Ended("returned", <<>>, S_empty)

focus_application(app_name, run) ==
    IF run.end = "exit" THEN Ended("returned", <<>>, run.returncode = 0)
    ELSE IF script_error(run) # "none" THEN Ended(script_error(run), <<>>, None)
    ELSE Ended("returned", <<>>, FALSE)

-----------------------------------------------------------------------------
(* Inputs of the public calls *)

XInputs == {-1, 0, 683, SCALE_TARGET_WIDTH, SCALE_TARGET_WIDTH + 1}
YInputs == {-1, 0, 384, SCALE_TARGET_HEIGHT, SCALE_TARGET_HEIGHT + 1}
ButtonInputs == {"left", "right", "middle", "wheel"}
DirectionInputs == {"up", "down", "left", "right", "diagonal"}
AmountInputs == {0, 3, -2}
KeyInputs == {S_cmd, S_CMD, S_Alt, S_esc, S_Return, S_A, S_c, S_F5}

ScrollXInputs ==
    {NoneArg} \cup {IntArg(v) : v \in {-1, 683, SCALE_TARGET_WIDTH}}
              \cup {StrArg(d) : d \in {"up", "right"}}
ScrollYInputs == {NoneArg} \cup {IntArg(v) : v \in {3, 384, SCALE_TARGET_HEIGHT + 1}}

PointInputs ==
    { Point(0, 0), Point(683, 384), Point(SCALE_TARGET_WIDTH, SCALE_TARGET_HEIGHT),
      Point(SCALE_TARGET_WIDTH + 1, 384), Point(683, -1),
      [x |-> <<>>, y |-> <<384>>] }

ProcInputs ==
    { NamedProc(S_Finder), NamedProc(S_Dock), NamedProc(S_bash),
      NamedProc(S_dot_sh), NamedProc(S_empty), NoNameProc, GoneProc, DeniedProc }

ScriptRuns ==
    { Exited(0, S_out_plain), Exited(0, S_out_padded), Exited(0, S_out_blank),
      Exited(0, S_empty), Exited(1, S_out_plain), Exited(1, S_empty),
      TimedOut, NotRun }

AppNameInputs == {S_Finder, S_Google_Chrome}

-----------------------------------------------------------------------------
(* The adapter as a state machine: one public call at a time (section 5:   *)
(* single-threaded, synchronous).                                           *)

Init ==
    /\ \E s \in Screens : Construct(s[1], s[2])
    /\ pc = "idle"
    /\ op = [name |-> "none"]
    /\ calls = <<>>
    /\ outcome = "none"
    /\ result = None
    /\ held = FALSE
    /\ next_point = 0
    /\ pending = "none"

\* a call that runs to its end in one step
Finish(call, r) ==
    /\ op' = call
    /\ calls' = r.calls
    /\ outcome' = r.outcome
    /\ result' = r.result
    /\ pc' = "ended"
    /\ UNCHANGED <<Geometry, held, next_point, pending>>

Click ==
    /\ pc = "idle"
    /\ \E x \in XInputs, y \in YInputs, b \in ButtonInputs, ok \in BOOLEAN :
           Finish([name |-> "click", x |-> x, y |-> y, button |-> b],
                  click(x, y, b, ok))

DoubleClick ==
    /\ pc = "idle"
    /\ \E x \in XInputs, y \in YInputs, ok \in BOOLEAN :
           Finish([name |-> "double_click", x |-> x, y |-> y],
                  double_click(x, y, ok))

Move ==
    /\ pc = "idle"
    /\ \E x \in XInputs, y \in YInputs, ok \in BOOLEAN :
           Finish([name |-> "move", x |-> x, y |-> y], move(x, y, ok))

MouseMove ==
    /\ pc = "idle"
    /\ \E x \in XInputs, y \in YInputs, ok \in BOOLEAN :
           Finish([name |-> "mouse_move", x |-> x, y |-> y], mouse_move(x, y, ok))

Scroll ==
    /\ pc = "idle"
    /\ \E x \in ScrollXInputs, y \in ScrollYInputs, d \in DirectionInputs,
          n \in AmountInputs, okMove \in BOOLEAN, okScroll \in BOOLEAN :
           Finish([name |-> "scroll", x |-> x, y |-> y, direction |-> d,
                   amount |-> n],
                  scroll(x, y, d, n, okMove, okScroll))

Keypress ==
    /\ pc = "idle"
    /\ \E keys \in SeqsUpTo(KeyInputs, MaxKeys), ok \in BOOLEAN :
           Finish([name |-> "keypress", keys |-> keys], keypress(keys, ok))

\* lines 198-213
Drag ==
    \E path \in SeqsUpTo(PointInputs, MaxPath), okMove \in BOOLEAN,
       okDown \in BOOLEAN :
        LET r == drag_start(path, okMove, okDown)
        IN  /\ pc = "idle"
            /\ op' = [name |-> "drag", path |-> path]
            /\ calls' = r.calls
            /\ result' = None
            /\ pending' = "none"
            /\ IF r.outcome = "running"
               THEN /\ pc' = "drag_loop"
                    /\ outcome' = "none"
                    /\ held' = TRUE
                    /\ next_point' = 1
               ELSE /\ pc' = "ended"
                    /\ outcome' = r.outcome
                    /\ UNCHANGED <<held, next_point>>
            /\ UNCHANGED Geometry

\* lines 217-220: one iteration of the loop; an error leaves for finally
DragMove ==
    /\ pc = "drag_loop"
    /\ LET points == drag_loop_points(op.path)
           point == points[next_point]
       IN  IF ~HasKeys(point)
           THEN /\ pending' = "KeyError"
                /\ pc' = "drag_finally"
                /\ UNCHANGED <<calls, next_point>>
           ELSE \E ok \in BOOLEAN :
                /\ calls' = Append(calls, NativeCall("moveTo", scale_point(point), ok))
                /\ IF ~ok
                   THEN /\ pending' = "NativeError"
                        /\ pc' = "drag_finally"
                        /\ UNCHANGED next_point
                   ELSE /\ next_point' = next_point + 1
                        /\ pc' = IF next_point = Len(points)
                                 THEN "drag_finally" ELSE "drag_loop"
                        /\ UNCHANGED pending
    /\ UNCHANGED <<Geometry, op, outcome, result, held>>

\* lines 221-223: finally: mouseUp, then the pending error, if any
DragRelease ==
    /\ pc = "drag_finally"
    /\ \E ok \in BOOLEAN :
        /\ calls' = Append(calls, NativeCall("mouseUp", <<>>, ok))
        /\ held' = IF ok THEN FALSE ELSE held
        /\ outcome' = IF ~ok THEN "NativeError"
                      ELSE IF pending = "none" THEN "returned"
                      ELSE pending
    /\ pc' = "ended"
    /\ UNCHANGED <<Geometry, op, result, next_point, pending>>

GetRunningApplications ==
    /\ pc = "idle"
    /\ \E procs \in SeqsUpTo(ProcInputs, MaxProcs) :
           Finish([name |-> "get_running_applications", procs |-> procs],
                  get_running_applications(procs))

GetActiveWindowTitle ==
    /\ pc = "idle"
    /\ \E run \in ScriptRuns :
           Finish([name |-> "get_active_window_title", run |-> run],
                  get_active_window_title(run))

FocusApplication ==
    /\ pc = "idle"
    /\ \E app_name \in AppNameInputs, run \in ScriptRuns :
           Finish([name |-> "focus_application", app_name |-> app_name, run |-> run],
                  focus_application(app_name, run))

\* the caller takes the outcome; the adapter is ready for the next call
Return ==
    /\ pc = "ended"
    /\ pc' = "idle"
    /\ op' = [name |-> "none"]
    /\ calls' = <<>>
    /\ outcome' = "none"
    /\ result' = None
    /\ next_point' = 0
    /\ pending' = "none"
    /\ UNCHANGED <<Geometry, held>>

Next ==
    \/ Click
    \/ DoubleClick
    \/ Move
    \/ MouseMove
    \/ Scroll
    \/ Keypress
    \/ Drag
    \/ DragMove
    \/ DragRelease
    \/ GetRunningApplications
    \/ GetActiveWindowTitle
    \/ FocusApplication
    \/ Return

Spec == Init /\ [][Next]_vars

-----------------------------------------------------------------------------
(* The scaling function on its own: every in-bounds logical point on the    *)
(* horizontal and vertical lines through XSamples and YSamples.             *)

XSamples == {0, 683, SCALE_TARGET_WIDTH}
YSamples == {0, 384, SCALE_TARGET_HEIGHT}

ScaleInit ==
    /\ \E s \in Screens : Construct(s[1], s[2])
    /\ \E x \in 0..SCALE_TARGET_WIDTH, y \in 0..SCALE_TARGET_HEIGHT :
          /\ x \in XSamples \/ y \in YSamples
          /\ op = [name |-> "_scale_coordinates_from_ai", x |-> x, y |-> y]
    /\ pc = "idle"
    /\ calls = <<>>
    /\ outcome = "none"
    /\ result = None
    /\ held = FALSE
    /\ next_point = 0
    /\ pending = "none"

ScalePoint ==
    /\ pc = "idle"
    /\ outcome = "none"
    /\ op.name = "_scale_coordinates_from_ai"
    /\ result' = scale_coordinates_from_ai(op.x, op.y)
    /\ outcome' = "returned"
    /\ UNCHANGED <<Geometry, pc, op, calls, held, next_point, pending>>

ScaleNext == ScalePoint

SpecScale == ScaleInit /\ [][ScaleNext]_vars

-----------------------------------------------------------------------------
(* Properties.  A call has ended when pc = "ended"; op holds its arguments, *)
(* calls the native calls it made, outcome what it raised.                  *)

EndedCall(name) == pc = "ended" /\ op.name = name

\* the indices of the native calls named fn that performed their event
Performed(fn) == { k \in 1..Len(calls) : calls[k].fn = fn /\ calls[k].ok }

\* the arguments of a call that the contract rejects
InvalidPath(path) ==
    \/ Len(path) < 2
    \/ \E k \in 1..Len(path) :
          \/ path[k].x # <<>> /\ (path[k].x[1] < 0 \/ path[k].x[1] > 1366)
          \/ path[k].y # <<>> /\ (path[k].y[1] < 0 \/ path[k].y[1] > 768)

InvalidArgs ==
    CASE op.name = "click" ->
            \/ op.x < 0 \/ op.x > 1366 \/ op.y < 0 \/ op.y > 768
            \/ op.button \notin {"left", "right", "middle"}
      [] op.name \in {"double_click", "move", "mouse_move"} ->
            op.x < 0 \/ op.x > 1366 \/ op.y < 0 \/ op.y > 768
      [] op.name = "scroll" ->
            /\ op.x.t = "int" /\ op.y.t = "int"
            /\ (op.x.n < 0 \/ op.x.n > 1366 \/ op.y.n < 0 \/ op.y.n > 768)
      [] op.name = "drag" -> InvalidPath(op.path)
      [] OTHER -> FALSE

\* C1: click, double_click, move, scroll with coordinates and drag reject an
\* out-of-bounds coordinate (of any path point), an unknown button and a path
\* of fewer than 2 points with a validation error, and a call that ends with
\* a validation error has made no native call at all.
C1_ValidationBeforeNative ==
    pc = "ended" =>
        /\ InvalidArgs => outcome = "ValueError"
        /\ outcome = "ValueError" => calls = <<>> /\ InvalidArgs

\* C1 witness: a drag rejected for a point that is not its first
C1_Witness ==
    /\ EndedCall("drag")
    /\ outcome = "ValueError"
    /\ calls = <<>>
    /\ Len(op.path) = 3
    /\ ~InvalidPath(SubSeq(op.path, 1, 2))

\* C2: once the press of a drag has been performed, a release is performed
\* before drag ends, by return or by error: as many releases as presses,
\* and the button is not left held.
C2_DragAlwaysReleases ==
    EndedCall("drag") =>
        /\ \A d \in Performed("mouseDown") :
              \E u \in Performed("mouseUp") : u > d
        /\ Cardinality(Performed("mouseUp")) = Cardinality(Performed("mouseDown"))
        /\ Performed("mouseDown") # {} => ~held

\* |v - scaled / (physical / logical)| <= bound / physical, in integers
RoundTripWithin(v, scaled, physical, logical, bound) ==
    /\ v * physical - scaled * logical <= bound
    /\ scaled * logical - v * physical <= bound

Scaled == op.name = "_scale_coordinates_from_ai" /\ outcome = "returned"

Max(a, b) == IF a >= b THEN a ELSE b

\* C3 as stated: for every screen size, scaling an in-bounds point and
\* dividing by the factor again gives a value within one logical pixel.
C3_RoundTripWithinOnePixel ==
    Scaled =>
        /\ RoundTripWithin(op.x, result[1], width, SCALE_TARGET_WIDTH, width)
        /\ RoundTripWithin(op.y, result[2], height, SCALE_TARGET_HEIGHT, height)

\* C3 amended: the round trip is within max(1, logical / physical) logical
\* pixels on each axis: within one logical pixel on an axis where the screen
\* is at least as large as the canvas, within one physical pixel otherwise.
C3_RoundTripWithinOneOfEitherPixel ==
    Scaled =>
        /\ RoundTripWithin(op.x, result[1], width, SCALE_TARGET_WIDTH,
                           Max(width, SCALE_TARGET_WIDTH))
        /\ RoundTripWithin(op.y, result[2], height, SCALE_TARGET_HEIGHT,
                           Max(height, SCALE_TARGET_HEIGHT))

\* C3 witness: on a screen larger than the canvas, a point whose image was
\* truncated, so that the round trip does not give it back
C3_Witness ==
    /\ Scaled
    /\ width > SCALE_TARGET_WIDTH
    /\ height > SCALE_TARGET_HEIGHT
    /\ op.x * width # result[1] * SCALE_TARGET_WIDTH
    /\ op.y * height # result[2] * SCALE_TARGET_HEIGHT

\* the direction and amount a scroll call works with (lines 111-115)
ScrollDirection == IF op.x.t = "str" THEN op.x.s ELSE op.direction
ScrollAmount ==
    IF op.x.t = "str" THEN (IF op.y.t = "int" THEN op.y.n ELSE 5) ELSE op.amount
VerticalDelta == IF ScrollDirection \in {"up", "down"} THEN ScrollAmount ELSE 0
HorizontalDelta == IF ScrollDirection \in {"left", "right"} THEN ScrollAmount ELSE 0

\* C4: a scroll whose delta on an axis is zero makes no native scroll call
\* on that axis (scroll is the vertical call, hscroll the horizontal one).
C4_ZeroDeltaNoEvent ==
    EndedCall("scroll") =>
        \A k \in 1..Len(calls) :
            /\ calls[k].fn = "scroll" => VerticalDelta # 0
            /\ calls[k].fn = "hscroll" => HorizontalDelta # 0

\* the key each input name stands for: lower-cased, then cmd -> command,
\* alt -> option, esc -> escape, return -> enter
ExpectedKey(key) ==
    CASE key \in {S_cmd, S_CMD} -> S_command
      [] key = S_Alt -> S_option
      [] key = S_esc -> S_escape
      [] key = S_Return -> S_enter
      [] key = S_A -> S_a
      [] key = S_c -> S_c
      [] key = S_F5 -> S_f5

\* C5: keypress([]) makes no native call; otherwise it makes exactly one:
\* press of the mapped key for one entry, hotkey of all mapped keys in
\* their order for two or more.
C5_KeypressOneEvent ==
    EndedCall("keypress") =>
        LET expected == [k \in 1..Len(op.keys) |-> ExpectedKey(op.keys[k])]
        IN  IF op.keys = <<>> THEN calls = <<>> /\ outcome = "returned"
            ELSE /\ Len(calls) = 1
                 /\ calls[1].fn = IF Len(op.keys) = 1 THEN "press" ELSE "hotkey"
                 /\ calls[1].args = expected

\* C5 witness: a chord with an upper-case alias
C5_Witness ==
    /\ EndedCall("keypress")
    /\ op.keys = <<S_CMD, S_c>>
    /\ calls = <<NativeCall("hotkey", <<S_command, S_c>>, TRUE)>>

\* t is s without its leading and trailing whitespace
IsTrimOf(t, s) ==
    /\ t # << >> => t[1] \notin Whitespace /\ t[Len(t)] \notin Whitespace
    /\ \E a \in 0..(Len(s) - Len(t)) :
          /\ SubSeq(s, a + 1, a + Len(t)) = t
          /\ \A k \in 1..Len(s) :
                (k <= a \/ k > a + Len(t)) => s[k] \in Whitespace

\* C6: get_active_window_title and focus_application never raise: the
\* title is the trimmed output on exit code 0 and "" otherwise (nonzero
\* exit, timeout, the script not run), the focus result is true on exit
\* code 0 and false otherwise.
C6_IntrospectionNeverRaises ==
    /\ EndedCall("get_active_window_title") =>
          /\ outcome = "returned"
          /\ IF op.run.end = "exit" /\ op.run.returncode = 0
             THEN IsTrimOf(result, op.run.stdout)
             ELSE result = << >>
    /\ EndedCall("focus_application") =>
          /\ outcome = "returned"
          /\ result = (op.run.end = "exit" /\ op.run.returncode = 0)

\* C6 witness: the script timed out and the title is empty
C6_Witness ==
    /\ EndedCall("get_active_window_title")
    /\ op.run = TimedOut
    /\ outcome = "returned"
    /\ result = << >>

\* C7: get_running_applications returns, in ascending order and without
\* repetition, exactly the non-empty names not starting with a dot of the
\* processes whose name could be read; the others are skipped silently.
C7_RunningApplications ==
    EndedCall("get_running_applications") =>
        LET readable == { k \in 1..Len(op.procs) : op.procs[k].info = "str" }
            names == { op.procs[k].name : k \in readable }
            shown == { n \in names : n # << >> /\ n[1] # 46 }
        IN  /\ outcome = "returned"
            /\ \A k \in 1..(Len(result) - 1) : StrLess(result[k], result[k + 1])
            /\ { result[k] : k \in 1..Len(result) } = shown

\* C7 witness: a process vanished, the two others are listed
C7_Witness ==
    /\ EndedCall("get_running_applications")
    /\ op.procs = <<NamedProc(S_Finder), GoneProc, NamedProc(S_Dock)>>
    /\ result = <<S_Dock, S_Finder>>

\* the logical points the caller gave to the call
CallerPoints ==
    CASE op.name \in {"click", "double_click", "move", "mouse_move"} ->
            { <<op.x, op.y>> }
      [] op.name = "scroll" ->
            IF op.x.t = "int" /\ op.y.t = "int" THEN { <<op.x.n, op.y.n>> } ELSE {}
      [] op.name = "drag" ->
            { <<op.path[k].x[1], op.path[k].y[1]>> :
                k \in { j \in 1..Len(op.path) : HasKeys(op.path[j]) } }
      [] OTHER -> {}

\* (trunc(x * physical_width / 1366), trunc(y * physical_height / 768))
ExactScale(p) ==
    << (p[1] * width) \div SCALE_TARGET_WIDTH,
       (p[2] * height) \div SCALE_TARGET_HEIGHT >>

\* C8: every coordinate pair given to pyautogui is the scaled image
\* (trunc(x * width / 1366), trunc(y * height / 768)) of a point the caller
\* gave to that call.
C8_IssuedCoordinatesAreScaled ==
    \A k \in 1..Len(calls) :
        calls[k].fn \in {"click", "doubleClick", "moveTo"} =>
            \E p \in CallerPoints :
                <<calls[k].args[1], calls[k].args[2]>> = ExactScale(p)

ValidPath(path) ==
    /\ Len(path) >= 2
    /\ \A k \in 1..Len(path) : HasKeys(path[k])
    /\ ~InvalidPath(path)

\* C9: a drag along a valid path p1..pn in which no native call fails makes
\* exactly: moveTo(scaled p1), mouseDown, moveTo(scaled p2), ...,
\* moveTo(scaled pn), mouseUp (scaled as the adapter scales).
C9_DragSequence ==
    (EndedCall("drag") /\ ValidPath(op.path)
        /\ \A k \in 1..Len(calls) : calls[k].ok) =>
        /\ outcome = "returned"
        /\ calls =
              << NativeCall("moveTo", scale_point(op.path[1]), TRUE),
                 NativeCall("mouseDown", <<>>, TRUE) >>
              \o [k \in 1..(Len(op.path) - 1) |->
                    NativeCall("moveTo", scale_point(op.path[k + 1]), TRUE)]
              \o << NativeCall("mouseUp", <<>>, TRUE) >>

\* C9 witness: a drag through three points that returned
C9_Witness ==
    /\ EndedCall("drag")
    /\ outcome = "returned"
    /\ Len(op.path) = 3
    /\ Len(calls) = 5

\* C10: the image of an in-bounds point lies within the physical screen,
\* the image of x = 1366 is the width and that of y = 768 the height, and
\* scaling is monotone on each axis.
C10_ScaledWithinScreen ==
    Scaled =>
        /\ 0 <= result[1] /\ result[1] <= width
        /\ 0 <= result[2] /\ result[2] <= height
        /\ op.x = SCALE_TARGET_WIDTH => result[1] = width
        /\ op.y = SCALE_TARGET_HEIGHT => result[2] = height
        /\ op.x < SCALE_TARGET_WIDTH =>
              result[1] <= FloatMulTrunc(op.x + 1, x_scale_factor)
        /\ op.y < SCALE_TARGET_HEIGHT =>
              result[2] <= FloatMulTrunc(op.y + 1, y_scale_factor)

=============================================================================
